---- MODULE Spec2Model ----
(***************************************************************************)
(* Model of the kvs storage core: the append-only RecordFile               *)
(* (src/src/record_file.rs) and the SSTable built on it                    *)
(* (src/src/sstable.rs).  The file is modelled byte for byte: a sequence   *)
(* of bytes 0..255, integers stored little-endian at their width.          *)
(***************************************************************************)
EXTENDS Integers, Sequences, FiniteSets, TLC

VARIABLES
    file,     \* the bytes of the file at the path (<<>> when absent or empty)
    exists,   \* whether the path exists
    rf,       \* the RecordFile object (fd cursor, record_count, header_len, last_record)
    it,       \* the iterator over rf, if any (Iter or RecordFileIterator)
    status,   \* "run", or "panic" while a panic is in flight
    res,      \* outcome of the latest operation
    gh,       \* history: payloads appended, offsets returned, sessions
    sst,      \* the SSTable builder / table object
    got       \* outcome of the latest SSTable::get

vars == <<file, exists, rf, it, status, res, gh, sst, got>>

(***************************************************************************)
(* Bounds of the model.                                                    *)
(***************************************************************************)
MaxAppends == 3     \* appends over the life of a Record File
MaxOpens == 3       \* opens (sessions) of a Record File
MaxRecs == 3        \* records in the stream handed to SSTable::new
MaxGroup == 2       \* largest group_count
MaxLimit == 2       \* largest count: Some(_)

Payloads == {<<>>, <<7>>, <<7, 8>>}
Headers == {<<65, 66>>, <<87, 88>>, <<65>>}

\* The records a stream is drawn from, and the keys looked up.
Records == {[key |-> <<1>>, value |-> <<10>>, created |-> 5],
            [key |-> <<1, 1>>, value |-> <<>>, created |-> 9],
            [key |-> <<2>>, value |-> <<11, 12>>, created |-> 3]}
ProbeKeys == {<<>>, <<1>>, <<1, 0>>, <<1, 1>>, <<2>>, <<3>>}
Streams == UNION {[1..n -> Records] : n \in 0..MaxRecs}

(***************************************************************************)
(* Fixed-width little-endian integers.  A u32 / u64 held in memory is kept *)
(* as its little-endian bytes, so that it keeps its width: 0xFFFFFFFF is   *)
(* <<255,255,255,255>> and incrementing wraps.  LEVal gives the number a   *)
(* byte string encodes, saturating at Huge: a number at or above Huge is   *)
(* only ever compared with a file length, which is far below it.           *)
(***************************************************************************)
Huge == 2^30

RECURSIVE LEVal(_)
LEVal(b) ==
    IF b = <<>> THEN 0
    ELSE LET r == LEVal(Tail(b)) IN
         IF r >= Huge \div 256 THEN Huge ELSE Head(b) + 256 * r

RECURSIVE LEBytes(_, _)
LEBytes(n, w) == IF w = 0 THEN <<>> ELSE <<n % 256>> \o LEBytes(n \div 256, w - 1)

U32LE(n) == LEBytes(n, 4)
U64LE(n) == LEBytes(n, 8)

RECURSIVE LEInc(_)
LEInc(b) ==
    IF b = <<>> THEN <<>>
    ELSE IF Head(b) = 255 THEN <<0>> \o LEInc(Tail(b))
    ELSE <<Head(b) + 1>> \o Tail(b)

\* pub const BAD_COUNT: u32 = 0xFFFFFFFF
BAD_COUNT == <<255, 255, 255, 255>>

(***************************************************************************)
(* The file handle: writing bytes at a position overwrites what is there   *)
(* and extends the file; a gap is filled with zeros.                       *)
(***************************************************************************)
WriteBytes(f, pos, bytes) ==
    LET n == IF pos + Len(bytes) > Len(f) THEN pos + Len(bytes) ELSE Len(f) IN
    [i \in 1..n |->
        IF i > pos /\ i <= pos + Len(bytes) THEN bytes[i - pos]
        ELSE IF i <= Len(f) THEN f[i] ELSE 0]

Slice(f, pos, n) == SubSeq(f, pos + 1, pos + n)

(***************************************************************************)
(* RecordFile                                                              *)
(***************************************************************************)
NoRF == [open |-> FALSE, pos |-> 0, record_count |-> <<>>, header_len |-> 0,
         last_record |-> <<>>]

\* RecordFile::new: the result, the file afterwards and the object.
RecordFile_new(f, header) ==
    LET H == Len(header)
        last0 == U64LE(H + 4 + 8)
    IN
    IF Len(f) = 0 THEN
        LET f1 == WriteBytes(f, 0, header \o BAD_COUNT \o last0) IN
        [r |-> "Ok", file |-> f1,
         rf |-> [open |-> TRUE, pos |-> Len(f1), record_count |-> U32LE(0),
                 header_len |-> H, last_record |-> last0]]
    ELSE IF Len(f) < H THEN [r |-> "UnexpectedEof", file |-> f, rf |-> NoRF]
    ELSE IF Slice(f, 0, H) # header THEN [r |-> "InvalidData", file |-> f, rf |-> NoRF]
    ELSE IF Len(f) < H + 4 THEN [r |-> "UnexpectedEof", file |-> f, rf |-> NoRF]
    ELSE IF Slice(f, H, 4) = BAD_COUNT THEN [r |-> "panic", file |-> f, rf |-> NoRF]
    ELSE IF Len(f) < H + 12 THEN [r |-> "UnexpectedEof", file |-> f, rf |-> NoRF]
    ELSE [r |-> "Ok", file |-> f,
          rf |-> [open |-> TRUE, pos |-> Len(f), record_count |-> Slice(f, H, 4),
                  header_len |-> H, last_record |-> Slice(f, H + 4, 8)]]

\* RecordFile::append with the field updates of a plausible slip: the count is
\* left as it was.
append_no_count(r, f, record) ==
    LET rec_loc == Len(f)
        f1 == WriteBytes(f, rec_loc, U32LE(Len(record)) \o record)
    IN [loc |-> rec_loc, file |-> f1,
        rf |-> [r EXCEPT !.pos = Len(f1), !.last_record = U64LE(rec_loc)]]

\* RecordFile::append without the seek to the end: the record is written
\* where the fd cursor stands.
append_at_cursor(r, f, record) ==
    LET rec_loc == r.pos
        f1 == WriteBytes(f, rec_loc, U32LE(Len(record)) \o record)
    IN [loc |-> rec_loc, file |-> f1,
        rf |-> [r EXCEPT !.pos = rec_loc + 4 + Len(record),
                         !.record_count = LEInc(r.record_count),
                         !.last_record = U64LE(rec_loc)]]

\* RecordFile::append with last_record left as it was.
append_stale_last(r, f, record) ==
    LET rec_loc == Len(f)
        f1 == WriteBytes(f, rec_loc, U32LE(Len(record)) \o record)
    IN [loc |-> rec_loc, file |-> f1,
        rf |-> [r EXCEPT !.pos = Len(f1),
                         !.record_count = LEInc(r.record_count)]]

\* RecordFile::append with the payload written without its length prefix.
append_no_len(r, f, record) ==
    LET rec_loc == Len(f)
        f1 == WriteBytes(f, rec_loc, record)
    IN [loc |-> rec_loc, file |-> f1,
        rf |-> [r EXCEPT !.pos = Len(f1),
                         !.record_count = LEInc(r.record_count),
                         !.last_record = U64LE(rec_loc)]]

\* RecordFile::append: seek to the end, write length and payload, update the
\* count and last_record, return where the record was written.
append(r, f, record) ==
    LET rec_loc == Len(f)
        f1 == WriteBytes(f, rec_loc, U32LE(Len(record)) \o record)
    IN [loc |-> rec_loc, file |-> f1,
        rf |-> [r EXCEPT !.pos = Len(f1),
                         !.record_count = LEInc(r.record_count),
                         !.last_record = U64LE(rec_loc)]]

\* RecordFile::read_at with the payload read one byte late.
read_at_shifted(f, file_offset) ==
    IF file_offset + 4 > Len(f) THEN [ok |-> FALSE, val |-> <<>>]
    ELSE LET rec_size == LEVal(Slice(f, file_offset, 4)) IN
         IF rec_size > Len(f) - file_offset - 5 THEN [ok |-> FALSE, val |-> <<>>]
         ELSE [ok |-> TRUE, val |-> Slice(f, file_offset + 5, rec_size)]

\* RecordFile::read_at: positional read of the length, then of the payload.
read_at(f, file_offset) ==
    IF file_offset + 4 > Len(f) THEN [ok |-> FALSE, val |-> <<>>]
    ELSE LET rec_size == LEVal(Slice(f, file_offset, 4)) IN
         IF rec_size > Len(f) - file_offset - 4 THEN [ok |-> FALSE, val |-> <<>>]
         ELSE [ok |-> TRUE, val |-> Slice(f, file_offset + 4, rec_size)]

\* RecordFile::get_last_record
get_last_record(r, f) == read_at(f, LEVal(r.last_record))

\* Drop for RecordFile: write count and last_record back after the header.
drop(r, f) == WriteBytes(f, r.header_len, r.record_count \o r.last_record)

(***************************************************************************)
(* Iterators                                                               *)
(***************************************************************************)
None == -1
NoIt == [kind |-> "none", cur_offset |-> None, cur_record |-> 0,
         out |-> <<>>, ended |-> FALSE]

\* RecordFile::iter
iter(r) == [kind |-> "iter", cur_offset |-> r.header_len + 4 + 8, cur_record |-> 0,
            out |-> <<>>, ended |-> FALSE]

\* Iter::next: [r |-> "None" | "Some" | "panic", it |-> the iterator afterwards]
Iter_next(i, r, f) ==
    IF i.cur_offset = None THEN [r |-> "None", it |-> [i EXCEPT !.ended = TRUE]]
    ELSE LET rec == read_at(f, i.cur_offset) IN
         IF ~rec.ok THEN [r |-> "panic", it |-> i]
         ELSE LET nxt == i.cur_offset + Len(rec.val) + 8 IN
              [r |-> "Some",
               it |-> [i EXCEPT !.cur_offset = IF U64LE(nxt) = r.last_record
                                                THEN None ELSE nxt,
                                !.out = Append(i.out, rec.val)]]

\* IntoIterator for RecordFile
into_iter(r) == [kind |-> "into", cur_offset |-> None, cur_record |-> 0,
                 out |-> <<>>, ended |-> FALSE]

\* RecordFileIterator::next: reads through the fd cursor.
\* [r |-> "None" | "Some" | "panic", it, rf]
RecordFileIterator_next(i, r, f) ==
    LET pos0 == IF i.cur_record = 0 THEN r.header_len + 4 + 8 ELSE r.pos
        r0 == [r EXCEPT !.pos = pos0]
    IN
    IF i.cur_record >= LEVal(r.record_count)
    THEN [r |-> "None", it |-> [i EXCEPT !.ended = TRUE], rf |-> r0]
    ELSE IF pos0 + 4 > Len(f) THEN [r |-> "panic", it |-> i, rf |-> r0]
    ELSE LET rec_size == LEVal(Slice(f, pos0, 4)) IN
         IF rec_size > Len(f) - pos0 - 4
         THEN [r |-> "panic", it |-> i, rf |-> [r0 EXCEPT !.pos = pos0 + 4]]
         ELSE [r |-> "Some",
               it |-> [i EXCEPT !.cur_record = i.cur_record + 1,
                                !.out = Append(i.out, Slice(f, pos0 + 4, rec_size))],
               rf |-> [r0 EXCEPT !.pos = pos0 + 4 + rec_size]]

(***************************************************************************)
(* Collaborators of the SSTable: the Record codec, the fixed-width u64     *)
(* sequence codec, the summary codec and RecordFile::write_at.             *)
(***************************************************************************)
U32_SIZE == 4
U64_SIZE == 8

\* Record::serialize: a three-field struct, length-tagged key and value.
Record_serialize(rec) ==
    <<147, Len(rec.key)>> \o rec.key \o <<Len(rec.value)>> \o rec.value
        \o <<rec.created>>

\* from_slice::<Record>
Record_from_slice(b) ==
    LET bad == [ok |-> FALSE, rec |-> [key |-> <<>>, value |-> <<>>, created |-> 0]] IN
    IF Len(b) < 2 \/ b[1] # 147 THEN bad
    ELSE LET kl == b[2] IN
         IF Len(b) < 3 + kl THEN bad
         ELSE LET vl == b[3 + kl] IN
              IF Len(b) # 4 + kl + vl THEN bad
              ELSE [ok |-> TRUE,
                    rec |-> [key |-> Slice(b, 2, kl), value |-> Slice(b, 3 + kl, vl),
                             created |-> b[4 + kl + vl]]]

\* serialize_u64_exact: each element as 8 little-endian bytes, no length tag.
RECURSIVE serialize_u64_exact(_)
serialize_u64_exact(v) ==
    IF v = <<>> THEN <<>> ELSE U64LE(Head(v)) \o serialize_u64_exact(Tail(v))

\* deserialize_u64_exact
deserialize_u64_exact(b) ==
    [i \in 1..(Len(b) \div U64_SIZE) |-> LEVal(Slice(b, (i - 1) * U64_SIZE, U64_SIZE))]

\* to_vec(&SSTableInfo): a six-field struct.
SSTableInfo_to_vec(info) ==
    <<150>> \o U64LE(info.record_count) \o U32LE(info.group_count)
        \o <<Len(info.indices)>> \o serialize_u64_exact(info.indices)
        \o <<Len(info.smallest_key)>> \o info.smallest_key
        \o <<Len(info.largest_key)>> \o info.largest_key
        \o U64LE(info.oldest_ts)

NoInfo == [record_count |-> 0, group_count |-> 0, indices |-> <<>>,
           smallest_key |-> <<>>, largest_key |-> <<>>, oldest_ts |-> 0]

\* from_slice::<SSTableInfo> that takes any blob for a summary.
SSTableInfo_from_slice_lenient(b) == [ok |-> TRUE, info |-> NoInfo]

\* from_slice::<SSTableInfo>
SSTableInfo_from_slice(b) ==
    LET bad == [ok |-> FALSE, info |-> NoInfo] IN
    IF Len(b) < 14 \/ b[1] # 150 THEN bad
    ELSE LET ni == b[14] IN
         IF Len(b) < 15 + 8 * ni THEN bad
         ELSE LET sl == b[15 + 8 * ni] IN
              IF Len(b) < 16 + 8 * ni + sl THEN bad
              ELSE LET ll == b[16 + 8 * ni + sl] IN
                   IF Len(b) # 24 + 8 * ni + sl + ll THEN bad
                   ELSE [ok |-> TRUE,
                         info |-> [record_count |-> LEVal(Slice(b, 1, 8)),
                                   group_count |-> LEVal(Slice(b, 9, 4)),
                                   indices |-> deserialize_u64_exact(Slice(b, 14, 8 * ni)),
                                   smallest_key |-> Slice(b, 15 + 8 * ni, sl),
                                   largest_key |-> Slice(b, 16 + 8 * ni + sl, ll),
                                   oldest_ts |-> LEVal(Slice(b, 16 + 8 * ni + sl + ll, 8))]]

\* RecordFile::write_at(offset, payload, flush): overwrite in place, length
\* then payload; count, last_record and the append position are untouched.
write_at(r, f, offset, payload) ==
    [file |-> WriteBytes(f, offset, U32LE(Len(payload)) \o payload), rf |-> r]

\* RecordFile::append_flush
append_flush(r, f, record) == append(r, f, record)

\* Ord for Vec<u8>: lexicographic, a proper prefix is smaller.
RECURSIVE cmp(_, _)
cmp(a, b) ==
    IF a = <<>> /\ b = <<>> THEN "Equal"
    ELSE IF a = <<>> THEN "Less"
    ELSE IF b = <<>> THEN "Greater"
    ELSE IF Head(a) < Head(b) THEN "Less"
    ELSE IF Head(a) > Head(b) THEN "Greater"
    ELSE cmp(Tail(a), Tail(b))

Zeros(n) == [i \in 1..n |-> 0]

(***************************************************************************)
(* SSTable                                                                 *)
(***************************************************************************)
\* const SSTABLE_HEADER: &[u8; 8] = b"DATA\x01\x00\x00\x00"
SSTABLE_HEADER == <<68, 65, 84, 65, 1, 0, 0, 0>>

NoCount == -1     \* count: None

\* The comparator with its operands exchanged: the probe compared with the
\* record's key.
key_cmp_swapped(f, index, key) ==
    LET rec_buff == read_at(f, index) IN
    IF ~rec_buff.ok THEN "panic"
    ELSE LET d == Record_from_slice(rec_buff.val) IN
         IF ~d.ok THEN "panic" ELSE cmp(key, d.rec.key)

\* The comparator of both binary searches: read the record at the offset,
\* decode it, compare its key with the probe.
key_cmp(f, index, key) ==
    LET rec_buff == read_at(f, index) IN
    IF ~rec_buff.ok THEN "panic"
    ELSE LET d == Record_from_slice(rec_buff.val) IN
         IF ~d.ok THEN "panic" ELSE cmp(d.rec.key, key)

\* slice::binary_search_by as called by get, on the 0-based positions of s:
\* [r |-> "Ok" | "Err" | "panic", i |-> position, last |-> the element the
\* comparator saw last]
RECURSIVE bsearch_loop(_, _, _, _, _)
bsearch_loop(f, s, key, base, size) ==
    IF size > 1 THEN
        LET half == size \div 2
            mid == base + half
            c == key_cmp(f, s[mid + 1], key)
        IN IF c = "panic" THEN [r |-> "panic", i |-> 0, last |-> s[mid + 1]]
           ELSE bsearch_loop(f, s, key, IF c = "Greater" THEN base ELSE mid, size - half)
    ELSE LET c == key_cmp(f, s[base + 1], key) IN
         IF c = "panic" THEN [r |-> "panic", i |-> 0, last |-> s[base + 1]]
         ELSE IF c = "Equal" THEN [r |-> "Ok", i |-> base, last |-> s[base + 1]]
         ELSE [r |-> "Err", i |-> base + (IF c = "Less" THEN 1 ELSE 0), last |-> s[base + 1]]

binary_search_by(f, s, key) ==
    IF Len(s) = 0 THEN [r |-> "Err", i |-> 0, last |-> 0]
    ELSE bsearch_loop(f, s, key, 0, Len(s))

RECURSIVE take_while_nonzero(_)
take_while_nonzero(v) ==
    IF v = <<>> \/ Head(v) = 0 THEN <<>> ELSE <<Head(v)>> \o take_while_nonzero(Tail(v))

NoRec == [key |-> <<>>, value |-> <<>>, created |-> 0]

\* group_indices_offset without the 4-byte length prefix of the block.
group_indices_offset_no_len(info, start_offset) ==
    start_offset - (info.group_count * U64_SIZE)

\* group_indices_offset taking the slots of the block for 4 bytes wide.
group_indices_offset_narrow(info, start_offset) ==
    start_offset - ((info.group_count * U32_SIZE) + U32_SIZE)

\* The offset of the group-index block of the group whose first record is at
\* start_offset.
group_indices_offset(info, start_offset) ==
    start_offset - ((info.group_count * U64_SIZE) + U32_SIZE)

\* SSTable::get: [r |-> "None" | "Some" | "Err" | "panic", rec |-> the record]
get(info, f, key) ==
    IF cmp(key, info.smallest_key) = "Less" \/ cmp(info.largest_key, key) = "Less"
    THEN [r |-> "None", rec |-> NoRec]
    ELSE
    LET top_index_res == binary_search_by(f, info.indices, key) IN
    IF top_index_res.r = "panic" THEN [r |-> "panic", rec |-> NoRec]
    ELSE IF top_index_res.r = "Err" /\ top_index_res.i = 0
    THEN [r |-> "panic", rec |-> NoRec]     \* i-1 underflows, or indexes out of bounds
    ELSE
    LET start_offset == info.indices[IF top_index_res.r = "Ok" THEN top_index_res.i + 1
                                     ELSE top_index_res.i]
        gio == group_indices_offset(info, start_offset)
    IN
    IF gio < 0 THEN [r |-> "panic", rec |-> NoRec]      \* u64 subtraction underflows
    ELSE
    LET group_indices_buff == read_at(f, gio) IN
    IF ~group_indices_buff.ok THEN [r |-> "Err", rec |-> NoRec]
    ELSE
    LET group_indices == take_while_nonzero(deserialize_u64_exact(group_indices_buff.val))
        group_index_res == binary_search_by(f, group_indices, key)
    IN
    IF group_index_res.r = "panic" THEN [r |-> "panic", rec |-> NoRec]
    ELSE IF group_index_res.r = "Ok"
    THEN [r |-> "Some", rec |-> Record_from_slice(read_at(f, group_index_res.last).val).rec]
    ELSE [r |-> "None", rec |-> NoRec]

(***************************************************************************)
(* The Record File state machine.                                          *)
(***************************************************************************)
NoHdr == <<0>>
NoSST == [st |-> "none", info |-> NoInfo, group_indices |-> <<>>,
          cur_group_indices_offset |-> 0, cur_key |-> <<>>, cur_ts |-> 0,
          records |-> <<>>, count |-> NoCount, brk |-> FALSE,
          stream |-> <<>>, pulled |-> 0, ins |-> <<>>, built |-> NoInfo,
          closed |-> FALSE, locs |-> <<>>, blocks |-> <<>>]

Init ==
    /\ file = <<>>
    /\ exists = FALSE
    /\ rf = NoRF
    /\ it = NoIt
    /\ status = "run"
    /\ res = [op |-> "none", r |-> "Ok", val |-> <<>>]
    /\ gh = [hist |-> <<>>, offs |-> <<>>, hdr |-> NoHdr, same |-> TRUE,
             clean |-> TRUE, opens |-> 0, sess |-> 0, cur |-> NoHdr,
             seek |-> 0]
    /\ sst = NoSST
    /\ got = [r |-> "none", key |-> <<>>, rec |-> NoRec]

\* RecordFile::new(path, h)
Open(h) ==
    /\ status = "run" /\ ~rf.open /\ sst.st = "none"
    /\ gh.opens < MaxOpens
    /\ LET o == RecordFile_new(file, h) IN
       /\ file' = o.file
       /\ exists' = TRUE
       /\ rf' = o.rf
       /\ status' = IF o.r = "panic" THEN "panic" ELSE "run"
       /\ res' = [op |-> "new", r |-> o.r, val |-> <<>>]
       /\ gh' = [gh EXCEPT !.opens = gh.opens + 1,
                           !.sess = 0,
                           !.cur = h,
                           !.hdr = IF Len(file) = 0 THEN h ELSE gh.hdr,
                           !.same = IF Len(file) = 0 THEN TRUE
                                    ELSE gh.same /\ (o.r = "Ok" => h = gh.hdr)]
    /\ UNCHANGED <<it, sst, got>>

\* rec_file.append(p)
DoAppend(p) ==
    /\ status = "run" /\ rf.open /\ it.kind = "none" /\ sst.st = "none"
    /\ Len(gh.hist) < MaxAppends
    /\ LET a == append(rf, file, p) IN
       /\ file' = a.file
       /\ rf' = a.rf
       /\ res' = [op |-> "append", r |-> "Ok", val |-> <<a.loc>>]
       /\ gh' = [gh EXCEPT !.hist = Append(gh.hist, p),
                           !.offs = Append(gh.offs, a.loc),
                           !.sess = gh.sess + 1,
                           !.seek = rf.pos]
    /\ UNCHANGED <<exists, it, status, sst, got>>

\* rec_file.read_at(o) at an offset an append returned
DoReadAt(i) ==
    /\ status = "run" /\ rf.open /\ it.kind \in {"none", "iter"} /\ sst.st = "none"
    /\ i \in 1..Len(gh.offs)
    /\ LET rd == read_at(file, gh.offs[i]) IN
       res' = [op |-> "read_at", r |-> IF rd.ok THEN "Ok" ELSE "Err", val |-> rd.val]
    /\ UNCHANGED <<file, exists, rf, it, status, gh, sst, got>>

\* rec_file.iter()
IterStart ==
    /\ status = "run" /\ rf.open /\ it.kind = "none" /\ sst.st = "none"
    /\ it' = iter(rf)
    /\ res' = [op |-> "iter", r |-> "Ok", val |-> <<>>]
    /\ UNCHANGED <<file, exists, rf, status, gh, sst, got>>

\* Iter::next
IterNext ==
    /\ status = "run" /\ rf.open /\ it.kind = "iter"
    /\ LET n == Iter_next(it, rf, file) IN
       /\ it' = n.it
       /\ status' = IF n.r = "panic" THEN "panic" ELSE "run"
       /\ res' = [op |-> "Iter::next", r |-> n.r, val |-> <<>>]
    /\ UNCHANGED <<file, exists, rf, gh, sst, got>>

\* the Iter goes out of scope; the RecordFile is usable again
IterDrop ==
    /\ status = "run" /\ rf.open /\ it.kind = "iter"
    /\ it' = NoIt
    /\ res' = [op |-> "drop Iter", r |-> "Ok", val |-> <<>>]
    /\ UNCHANGED <<file, exists, rf, status, gh, sst, got>>

\* rec_file.into_iter()
IntoIter ==
    /\ status = "run" /\ rf.open /\ it.kind = "none" /\ sst.st = "none"
    /\ it' = into_iter(rf)
    /\ res' = [op |-> "into_iter", r |-> "Ok", val |-> <<>>]
    /\ UNCHANGED <<file, exists, rf, status, gh, sst, got>>

\* RecordFileIterator::next
IntoIterNext ==
    /\ status = "run" /\ rf.open /\ it.kind = "into"
    /\ LET n == RecordFileIterator_next(it, rf, file) IN
       /\ it' = n.it
       /\ rf' = n.rf
       /\ status' = IF n.r = "panic" THEN "panic" ELSE "run"
       /\ res' = [op |-> "RecordFileIterator::next", r |-> n.r, val |-> <<>>]
    /\ UNCHANGED <<file, exists, gh, sst, got>>

\* The RecordFile (or the RecordFileIterator that owns it) is dropped, also
\* when a panic unwinds: Drop for RecordFile runs.
Close ==
    /\ rf.open /\ sst.st = "none"
    /\ it.kind # "iter" \/ status = "panic"
    /\ file' = drop(rf, file)
    /\ rf' = NoRF
    /\ it' = NoIt
    /\ status' = "run"
    /\ res' = [op |-> "drop", r |-> "Ok", val |-> <<>>]
    /\ UNCHANGED <<exists, gh, sst, got>>

\* The process ends without running destructors (abort, kill, power loss);
\* also the end of a panic raised before any RecordFile exists.
Crash ==
    /\ rf.open \/ status = "panic"
    /\ sst.st = "none"
    /\ rf' = NoRF
    /\ it' = NoIt
    /\ status' = "run"
    /\ res' = [op |-> "crash", r |-> "Ok", val |-> <<>>]
    /\ gh' = [gh EXCEPT !.clean = gh.clean /\ ~rf.open]
    /\ UNCHANGED <<file, exists, sst, got>>

Next ==
    \/ \E h \in Headers : Open(h)
    \/ \E p \in Payloads : DoAppend(p)
    \/ \E i \in 1..MaxAppends : DoReadAt(i)
    \/ IterStart
    \/ IterNext
    \/ IterDrop
    \/ IntoIter
    \/ IntoIterNext
    \/ Close
    \/ Crash

Spec == Init /\ [][Next]_vars

(***************************************************************************)
(* The SSTable state machine: SSTable::new runs from BuildStart through    *)
(* one BuildStep per record pulled to BuildFinish.                         *)
(***************************************************************************)
\* SSTable::new, up to the loop, without the exists check: the RecordFile is
\* opened on whatever is at the path.
BuildStart_no_exists_check(group_count, count) ==
    /\ status = "run" /\ ~rf.open /\ sst.st \in {"none", "dropped"}
    /\ IF group_count = 0 \/ count = 0
       THEN /\ status' = "panic"
            /\ res' = [op |-> "SSTable::new", r |-> "panic",
                       val |-> <<group_count, count>>]
            /\ UNCHANGED <<file, exists, rf, sst>>
       ELSE LET o == RecordFile_new(file, SSTABLE_HEADER) IN
            /\ file' = o.file
            /\ exists' = TRUE
            /\ rf' = o.rf
            /\ status' = IF o.r = "panic" THEN "panic" ELSE "run"
            /\ res' = [op |-> "SSTable::new", r |-> o.r, val |-> <<>>]
            /\ \E records \in Streams :
                 sst' = IF o.r # "Ok" THEN sst
                        ELSE [NoSST EXCEPT
                                !.st = "building",
                                !.info = [NoInfo EXCEPT !.group_count = group_count],
                                !.group_indices = Zeros(group_count),
                                !.records = records,
                                !.count = count,
                                !.stream = records]
    /\ UNCHANGED <<it, gh, got>>

\* SSTable::new, up to the loop: argument checks, exists check, RecordFile.
\* The records iterator is not touched before the loop, so the stream it
\* will yield is drawn only where the loop is entered.
BuildStart(group_count, count) ==
    /\ status = "run" /\ ~rf.open /\ sst.st \in {"none", "dropped"}
    /\ IF group_count = 0 \/ count = 0
       THEN \* assert_ne! panics; val keeps the arguments of the refused call
            /\ status' = "panic"
            /\ res' = [op |-> "SSTable::new", r |-> "panic",
                       val |-> <<group_count, count>>]
            /\ UNCHANGED <<file, exists, rf, sst>>
       ELSE IF exists
       THEN /\ res' = [op |-> "SSTable::new", r |-> "AlreadyExists", val |-> <<>>]
            /\ UNCHANGED <<file, exists, rf, sst, status>>
       ELSE LET o == RecordFile_new(file, SSTABLE_HEADER) IN
            /\ file' = o.file
            /\ exists' = TRUE
            /\ rf' = o.rf
            /\ status' = IF o.r = "panic" THEN "panic" ELSE "run"
            /\ res' = [op |-> "SSTable::new", r |-> o.r, val |-> <<>>]
            /\ \E records \in Streams :
                 sst' = IF o.r # "Ok" THEN sst
                        ELSE [NoSST EXCEPT
                                !.st = "building",
                                !.info = [NoInfo EXCEPT !.group_count = group_count],
                                !.group_indices = Zeros(group_count),
                                !.records = records,
                                !.count = count,
                                !.stream = records]
    /\ UNCHANGED <<it, gh, got>>

\* Whether the record about to be inserted opens a group, and so gets an
\* entry in the top-level indices, taken one record late.
starts_group_late(record_count, group_count) == record_count % group_count = 1

\* Whether the record about to be inserted opens a group, and so gets an
\* entry in the top-level indices.
starts_group(record_count, group_count) == record_count % group_count = 0

\* Whether the loop leaves after this record: count reached.
limit_reached(count, record_count) == count # NoCount /\ count >= record_count

\* One turn of the loop of SSTable::new on the record the iterator yields.
BuildStep ==
    /\ status = "run" /\ sst.st = "building" /\ ~sst.brk /\ sst.records # <<>>
    /\ LET rec == Head(sst.records)
           info == sst.info
           g == info.group_count
           rc == info.record_count
       IN
       IF rc # 0 /\ cmp(rec.key, sst.cur_key) \in {"Less", "Equal"}
       THEN /\ status' = "panic"
            /\ res' = [op |-> "SSTable::new", r |-> "panic", val |-> <<>>]
            /\ sst' = [sst EXCEPT !.records = Tail(sst.records),
                                  !.pulled = sst.pulled + 1]
            /\ UNCHANGED <<file, rf>>
       ELSE
       LET \* take care of our group_indices
           patched == IF rc # 0 /\ rc % g = 0
                      THEN write_at(rf, file, sst.cur_group_indices_offset,
                                    serialize_u64_exact(sst.group_indices))
                      ELSE [file |-> file, rf |-> rf]
           fresh == rc = 0 \/ rc % g = 0
           gi0 == IF rc # 0 /\ rc % g = 0 THEN Zeros(g) ELSE sst.group_indices
           a1 == IF fresh
                 THEN append(patched.rf, patched.file, serialize_u64_exact(gi0))
                 ELSE [loc |-> sst.cur_group_indices_offset, file |-> file, rf |-> rf]
           \* append the record
           a2 == append(a1.rf, a1.file, Record_serialize(rec))
           gi1 == [gi0 EXCEPT ![(rc % g) + 1] = a2.loc]
           info1 == [info EXCEPT
                       !.indices = IF starts_group(rc, g)
                                   THEN Append(info.indices, a2.loc)
                                   ELSE info.indices,
                       !.smallest_key = IF rc = 0 THEN rec.key ELSE info.smallest_key,
                       !.oldest_ts = IF rc = 0 \/ rec.created > info.oldest_ts
                                     THEN rec.created ELSE info.oldest_ts,
                       !.record_count = rc + 1]
       IN
       /\ file' = a2.file
       /\ rf' = a2.rf
       /\ status' = "run"
       /\ res' = [op |-> "SSTable::new loop", r |-> "Ok", val |-> <<a2.loc>>]
       /\ sst' = [sst EXCEPT !.info = info1,
                             !.group_indices = gi1,
                             !.cur_group_indices_offset = a1.loc,
                             !.cur_key = rec.key,
                             !.cur_ts = rec.created,
                             !.records = Tail(sst.records),
                             !.pulled = sst.pulled + 1,
                             !.ins = Append(sst.ins, rec),
                             !.locs = Append(sst.locs, a2.loc),
                             !.blocks = IF fresh THEN Append(sst.blocks, a1.loc)
                                        ELSE sst.blocks,
                             !.brk = limit_reached(sst.count, info1.record_count)]
    /\ UNCHANGED <<exists, it, gh, got>>

\* An I/O error makes a `?` of the loop of SSTable::new return Err and the
\* RecordFile is dropped: at the first append of a turn (nothing of the turn
\* is written), or at the record append of a turn that opens a group, after
\* its group-index block was appended (after_block).
BuildIoError(after_block) ==
    /\ status = "run" /\ sst.st = "building" /\ ~sst.brk /\ sst.records # <<>>
    /\ LET rec == Head(sst.records)
           g == sst.info.group_count
           rc == sst.info.record_count
           patched == IF rc # 0
                      THEN write_at(rf, file, sst.cur_group_indices_offset,
                                    serialize_u64_exact(sst.group_indices))
                      ELSE [file |-> file, rf |-> rf]
           a1 == append(patched.rf, patched.file, serialize_u64_exact(Zeros(g)))
       IN
       /\ ~(rc # 0 /\ cmp(rec.key, sst.cur_key) \in {"Less", "Equal"})
       /\ after_block => rc % g = 0
       /\ file' = IF after_block THEN drop(a1.rf, a1.file) ELSE drop(rf, file)
       /\ rf' = NoRF
       /\ res' = [op |-> "SSTable::new", r |-> "Err", val |-> <<>>]
       /\ sst' = [sst EXCEPT !.st = "dropped",
                             !.closed = FALSE,
                             !.records = Tail(sst.records),
                             !.pulled = sst.pulled + 1]
    /\ UNCHANGED <<exists, it, status, gh, got>>

\* SSTable::new after the loop without the write of the current group-index
\* block.
BuildFinish_no_patch ==
    /\ status = "run" /\ sst.st = "building" /\ (sst.brk \/ sst.records = <<>>)
    /\ LET info1 == [sst.info EXCEPT !.largest_key = sst.cur_key]
           a == append_flush(rf, file, SSTableInfo_to_vec(info1))
       IN
       /\ file' = a.file
       /\ rf' = a.rf
       /\ res' = [op |-> "SSTable::new", r |-> "Ok", val |-> <<a.loc>>]
       /\ sst' = [sst EXCEPT !.st = "built", !.info = info1, !.built = info1]
    /\ UNCHANGED <<exists, it, status, gh, got>>

\* SSTable::new after the loop: patch the current group-index block, set
\* largest_key, append the summary as the last record.
BuildFinish ==
    /\ status = "run" /\ sst.st = "building" /\ (sst.brk \/ sst.records = <<>>)
    /\ LET w == write_at(rf, file, sst.cur_group_indices_offset,
                         serialize_u64_exact(sst.group_indices))
           info1 == [sst.info EXCEPT !.largest_key = sst.cur_key]
           a == append_flush(w.rf, w.file, SSTableInfo_to_vec(info1))
       IN
       /\ file' = a.file
       /\ rf' = a.rf
       /\ res' = [op |-> "SSTable::new", r |-> "Ok", val |-> <<a.loc>>]
       /\ sst' = [sst EXCEPT !.st = "built", !.info = info1, !.built = info1]
    /\ UNCHANGED <<exists, it, status, gh, got>>

\* sstable.get(key)
SSTGet(key) ==
    /\ status = "run" /\ sst.st \in {"built", "opened"}
    /\ LET g == get(sst.info, file, key) IN
       /\ got' = [r |-> g.r, key |-> key, rec |-> g.rec]
       /\ status' = IF g.r = "panic" THEN "panic" ELSE "run"
       /\ res' = [op |-> "SSTable::get", r |-> g.r, val |-> <<>>]
    /\ UNCHANGED <<file, exists, rf, it, gh, sst>>

\* The table (or, when a panic unwinds, the builder's RecordFile) is dropped:
\* Drop for RecordFile runs.
SSTDrop ==
    /\ sst.st \in {"built", "opened"}
       \/ (sst.st \in {"building", "opening"} /\ status = "panic")
    /\ file' = drop(rf, file)
    /\ rf' = NoRF
    /\ status' = "run"
    /\ res' = [op |-> "drop", r |-> "Ok", val |-> <<>>]
    /\ sst' = [sst EXCEPT !.st = "dropped",
                          !.closed = sst.st \in {"built", "opened"}]
    /\ got' = [r |-> "none", key |-> <<>>, rec |-> NoRec]
    /\ UNCHANGED <<exists, it, gh>>

\* The process ends without running destructors; also the end of a panic
\* raised while no RecordFile is held.
SSTAbort ==
    /\ sst.st \in {"building", "opening", "built", "opened"} \/ status = "panic"
    /\ rf' = NoRF
    /\ status' = "run"
    /\ res' = [op |-> "crash", r |-> "Ok", val |-> <<>>]
    /\ sst' = [sst EXCEPT !.st = IF sst.st = "none" THEN "none" ELSE "dropped"]
    /\ got' = [r |-> "none", key |-> <<>>, rec |-> NoRec]
    /\ UNCHANGED <<file, exists, it, gh>>

\* SSTable::open
SSTOpen ==
    /\ status = "run" /\ ~rf.open /\ sst.st \in {"none", "dropped"}
    /\ IF ~exists
       THEN /\ res' = [op |-> "SSTable::open", r |-> "NotFound", val |-> <<>>]
            /\ UNCHANGED <<file, rf, status, sst>>
       ELSE LET o == RecordFile_new(file, SSTABLE_HEADER) IN
            IF o.r # "Ok"
            THEN /\ res' = [op |-> "SSTable::open", r |-> o.r, val |-> <<>>]
                 /\ status' = IF o.r = "panic" THEN "panic" ELSE "run"
                 /\ file' = o.file
                 /\ UNCHANGED <<rf, sst>>
            ELSE LET last == get_last_record(o.rf, o.file)
                     d == SSTableInfo_from_slice(last.val)
                 IN
                 /\ file' = o.file
                 /\ IF last.ok /\ d.ok
                    THEN /\ rf' = o.rf
                         /\ status' = "run"
                         /\ res' = [op |-> "SSTable::open", r |-> "Ok", val |-> <<>>]
                         /\ sst' = [sst EXCEPT !.st = "opened", !.info = d.info]
                    ELSE \* expect() panics; the RecordFile is live and unwinds
                         /\ rf' = o.rf
                         /\ status' = "panic"
                         /\ res' = [op |-> "SSTable::open", r |-> "panic", val |-> <<>>]
                         /\ sst' = [sst EXCEPT !.st = "opening"]
    /\ UNCHANGED <<exists, it, gh, got>>

NextSST ==
    \/ \E g \in 0..MaxGroup, c \in {NoCount} \cup 0..MaxLimit : BuildStart(g, c)
    \/ BuildStep
    \/ \E b \in BOOLEAN : BuildIoError(b)
    \/ BuildFinish
    \/ \E k \in ProbeKeys : SSTGet(k)
    \/ SSTDrop
    \/ SSTAbort
    \/ SSTOpen

SpecSST == Init /\ [][NextSST]_vars

(***************************************************************************)
(* The whole program: both state machines, and the operations of the       *)
(* Record File that hand its fd cursor to a borrowing iterator.            *)
(***************************************************************************)
\* IntoIterator for &mut RecordFile
mut_into_iter(r) == [kind |-> "mut", cur_offset |-> None, cur_record |-> 0,
                     out |-> <<>>, ended |-> FALSE]

\* MutRecordFileIterator::next: the code of RecordFileIterator::next, on the
\* borrowed RecordFile.
MutRecordFileIterator_next(i, r, f) == RecordFileIterator_next(i, r, f)

\* (&mut rec_file).into_iter()
MutIter ==
    /\ status = "run" /\ rf.open /\ it.kind = "none" /\ sst.st = "none"
    /\ it' = mut_into_iter(rf)
    /\ res' = [op |-> "into_iter", r |-> "Ok", val |-> <<>>]
    /\ UNCHANGED <<file, exists, rf, status, gh, sst, got>>

\* MutRecordFileIterator::next
MutIterNext ==
    /\ status = "run" /\ rf.open /\ it.kind = "mut"
    /\ LET n == MutRecordFileIterator_next(it, rf, file) IN
       /\ it' = n.it
       /\ rf' = n.rf
       /\ status' = IF n.r = "panic" THEN "panic" ELSE "run"
       /\ res' = [op |-> "MutRecordFileIterator::next", r |-> n.r, val |-> <<>>]
    /\ UNCHANGED <<file, exists, gh, sst, got>>

\* The MutRecordFileIterator goes out of scope, consumed or not; the
\* RecordFile is usable again, its fd cursor where the iterator left it.
MutIterDrop ==
    /\ status = "run" /\ rf.open /\ it.kind = "mut"
    /\ it' = NoIt
    /\ res' = [op |-> "drop MutRecordFileIterator", r |-> "Ok", val |-> <<>>]
    /\ UNCHANGED <<file, exists, rf, status, gh, sst, got>>

\* rec_file.get_last_record()
DoGetLastRecord ==
    /\ status = "run" /\ rf.open /\ it.kind = "none" /\ sst.st = "none"
    /\ LET rd == get_last_record(rf, file) IN
       res' = [op |-> "get_last_record", r |-> IF rd.ok THEN "Ok" ELSE "Err",
               val |-> rd.val]
    /\ UNCHANGED <<file, exists, rf, it, status, gh, sst, got>>

\* The operations of one Record File between its open and its drop, with the
\* borrowing iterators that can be left partly consumed, and the SSTable
\* operations. A path holds a plain Record File or a table: the SSTable
\* operations run on a path RecordFile::new was not called on directly.
NextAll ==
    \/ \E h \in Headers : Open(h)
    \/ \E p \in Payloads : DoAppend(p)
    \/ \E i \in 1..MaxAppends : DoReadAt(i)
    \/ DoGetLastRecord
    \/ IterStart
    \/ IterNext
    \/ IterDrop
    \/ MutIter
    \/ MutIterNext
    \/ MutIterDrop
    \/ Close
    \/ gh.opens = 0 /\ NextSST

SpecAll == Init /\ [][NextAll]_vars

(***************************************************************************)
(* Properties                                                              *)
(***************************************************************************)
IsPrefix(a, b) == Len(a) <= Len(b) /\ SubSeq(b, 1, Len(a)) = a

Min(a, b) == IF a < b THEN a ELSE b

StrictlyIncreasing(recs) ==
    \A i \in 1..(Len(recs) - 1) : cmp(recs[i].key, recs[i + 1].key) = "Less"

\* Every session of the file so far used the header it was created with and
\* ended with the close path.
CleanSameHeader == gh.same /\ gh.clean

\* C1: payloads appended to a fresh Record File, over one or several sessions
\* with the same header that each end with the close path, are what the
\* consuming iterator (RecordFileIterator) yields: it never panics, what it
\* has yielded so far is a prefix of the appended payloads in append order,
\* and once it has returned None it has yielded exactly all of them.
C1_RoundTrip ==
    (it.kind = "into" /\ CleanSameHeader) =>
        /\ status # "panic"
        /\ IsPrefix(it.out, gh.hist)
        /\ it.ended => it.out = gh.hist

\* C1 witness: two payloads, one of them empty, appended in earlier
\* sessions, the file reopened and iterated to the end.
C1_Witness ==
    /\ it.kind = "into" /\ it.ended /\ CleanSameHeader
    /\ gh.opens >= 2 /\ gh.sess = 0
    /\ gh.hist = << <<7, 8>>, <<>> >>
    /\ it.out = gh.hist

\* C2: the borrowed iterator (RecordFile::iter) over a Record File holding
\* p1..pn never panics, yields a prefix of p1..pn, and once it has returned
\* None it has yielded exactly p1..pn.
C2_IterYieldsAll ==
    (it.kind = "iter" /\ CleanSameHeader) =>
        /\ status # "panic"
        /\ IsPrefix(it.out, gh.hist)
        /\ it.ended => it.out = gh.hist

\* C3: read_at at the offset the i-th append returned gives the i-th payload,
\* in the session of the append, after later appends and after the file was
\* closed and reopened; and a read_at the program performed returned Ok.
C3_ReadAtStable ==
    /\ \A i \in 1..Len(gh.offs) :
           read_at(file, gh.offs[i]) = [ok |-> TRUE, val |-> gh.hist[i]]
    /\ res.op = "read_at" => res.r = "Ok"

\* C3 witness: a read_at in a later session than the first append, after a
\* further append in that session.
C3_Witness ==
    /\ rf.open /\ res.op = "read_at" /\ res.r = "Ok"
    /\ gh.opens >= 2 /\ gh.sess >= 1 /\ Len(gh.hist) >= 3
    /\ res.val = gh.hist[1] /\ gh.hist[1] # <<>>

\* C4: in a table built from a non-empty stream (and in that table reopened),
\* get of the key of every inserted record returns that record.
C4_GetHit ==
    (sst.st \in {"built", "opened"} /\ sst.ins # <<>>) =>
        \A i \in 1..Len(sst.ins) :
            get(sst.info, file, sst.ins[i].key) = [r |-> "Some", rec |-> sst.ins[i]]

\* C4 witness: three records in groups of two (a partial last group), the
\* table reopened, and the last record looked up.
C4_Witness ==
    /\ sst.st = "opened" /\ Len(sst.ins) = 3 /\ sst.info.group_count = 2
    /\ got.r = "Some" /\ got.key = sst.ins[3].key /\ got.rec = sst.ins[3]

\* C5: in any built table, get of a key that was not inserted returns None:
\* it returns no record, no error, and does not panic.
C5_GetMiss ==
    sst.st \in {"built", "opened"} =>
        \A k \in ProbeKeys :
            (\A i \in 1..Len(sst.ins) : sst.ins[i].key # k) =>
                get(sst.info, file, k).r = "None"

\* C6: after a successful SSTable::new the summary is the last record of the
\* file and last_record points at it; and SSTable::open after the built table
\* was dropped succeeds and loads the summary the builder produced.
C6_BuildOpenRoundTrip ==
    /\ sst.st = "built" =>
           /\ get_last_record(rf, file) = [ok |-> TRUE, val |-> SSTableInfo_to_vec(sst.info)]
           /\ LEVal(rf.last_record) + U32_SIZE + Len(SSTableInfo_to_vec(sst.info)) = Len(file)
    /\ (res.op = "SSTable::open" /\ sst.closed) =>
           /\ res.r = "Ok"
           /\ sst.st = "opened"
           /\ sst.info = sst.built

\* C7: built with count = Some(L), L >= 1, from a strictly increasing stream
\* of n records, the builder pulled and inserted min(L, n) records and the
\* summary's record_count is min(L, n).
C7_Limit ==
    (sst.st = "built" /\ sst.count # NoCount /\ StrictlyIncreasing(sst.stream)) =>
        /\ sst.pulled = Min(sst.count, Len(sst.stream))
        /\ Len(sst.ins) = Min(sst.count, Len(sst.stream))
        /\ sst.info.record_count = Min(sst.count, Len(sst.stream))

\* C8: a build from an empty stream that returns a table leaves the header
\* and the count / last-record prefix of the file as RecordFile::new wrote
\* them, and the file reopens as a table with record_count 0, no indices and
\* empty smallest_key and largest_key.
C8_EmptyStreamBuild ==
    /\ (sst.st = "built" /\ sst.stream = <<>>) =>
           Slice(file, 0, 20) = SSTABLE_HEADER \o BAD_COUNT \o U64LE(20)
    /\ (res.op = "SSTable::open" /\ sst.closed /\ sst.stream = <<>>) =>
           /\ res.r = "Ok"
           /\ sst.info.record_count = 0
           /\ sst.info.indices = <<>>
           /\ sst.info.smallest_key = <<>>
           /\ sst.info.largest_key = <<>>

\* C9: while a Record File is open (opened with the header it was created
\* with), the record count persisted in the file is the sentinel BAD_COUNT.
C9_SentinelWhileOpen ==
    (rf.open /\ gh.same) => Slice(file, rf.header_len, 4) = BAD_COUNT

\* C10: RecordFile::new never panics: on a file whose persisted count is the
\* sentinel it returns a RecordFile or an error value.
C10_DirtyOpenNoAbort ==
    res.op = "new" => res.r # "panic"

\* C11: after a Record File is dropped, the first H bytes of the file are the
\* header supplied at open, the next 4 bytes encode the number of records
\* appended over the file's whole life, and the following 8 bytes encode the
\* offset of the most recently appended record (H + 12 if there is none).
C11_HeaderDurability ==
    (res.op = "drop" /\ sst.st = "none") =>
        LET H == Len(gh.cur) IN
        /\ Slice(file, 0, H) = gh.cur
        /\ Slice(file, H, 4) = U32LE(Len(gh.hist))
        /\ Slice(file, H + 4, 8) =
               U64LE(IF gh.hist = <<>> THEN H + 12 ELSE gh.offs[Len(gh.offs)])

\* C12: every successful append returns the end-of-file offset as it was
\* before the write; right after it last_record is the returned offset,
\* record_count is one more than before the call, and the file has grown by
\* the length prefix and the payload.
C12_AppendPost ==
    [][res'.op = "append" =>
          /\ res'.r = "Ok"
          /\ res'.val = <<Len(file)>>
          /\ rf'.last_record = U64LE(res'.val[1])
          /\ LEVal(rf.record_count) < Huge - 1 =>
                 LEVal(rf'.record_count) = LEVal(rf.record_count) + 1
          /\ Len(file') = Len(file) + 4 + Len(gh'.hist[Len(gh'.hist)])]_vars

\* C12 witness: the second append of a later session has returned; it
\* returned the offset last_record now holds and the count is 3.
C12_Witness ==
    /\ res.op = "append" /\ rf.open /\ gh.opens >= 2 /\ gh.sess = 2
    /\ rf.last_record = U64LE(res.val[1])
    /\ Len(gh.hist) = 3 /\ LEVal(rf.record_count) = 3

\* Bytes taken by the first n records of hist, each with its length prefix.
RECURSIVE FramedLen(_, _)
FramedLen(hist, n) ==
    IF n = 0 THEN 0 ELSE FramedLen(hist, n - 1) + 4 + Len(hist[n])

\* C13: on a file created with a header of length H, the i-th append returns
\* H + 12 + the framed length of the payloads before it (so the first returns
\* H + 12), and the offsets returned by successive appends strictly increase.
C13_AppendOffsets ==
    /\ Len(gh.offs) = Len(gh.hist)
    /\ \A i \in 1..Len(gh.offs) :
           gh.offs[i] = Len(gh.hdr) + 12 + FramedLen(gh.hist, i - 1)
    /\ \A i \in 1..(Len(gh.offs) - 1) : gh.offs[i] < gh.offs[i + 1]
    /\ res.op = "append" => res.val = <<gh.offs[Len(gh.offs)]>>

\* C13 witness: header of 2 bytes, payloads of 2, 0 and 1 bytes appended in
\* one session return 14, 20 and 24.
C13_Witness ==
    /\ res.op = "append" /\ gh.opens = 1 /\ gh.hdr = <<65, 66>>
    /\ gh.hist = << <<7, 8>>, <<>>, <<7>> >>
    /\ gh.offs = <<14, 20, 24>>

\* C14: RecordFile::new on an existing non-empty file with a header that is
\* not the header the file was created with returns the invalid-format error
\* (InvalidData) and leaves every byte of the file as it was.
C14_HeaderMismatch ==
    [][(res'.op = "new" /\ Len(file) # 0 /\ gh'.cur # gh.hdr) =>
          /\ res'.r = "InvalidData"
          /\ file' = file]_vars

\* C15: when the builder has pulled a record whose key is not greater than
\* the key inserted before it, SSTable::new returns the OutOfOrderKey error
\* to its caller (it does not panic), and the last record of the file is not
\* a summary.
C15_OutOfOrderRejected ==
    (sst.st = "building" /\ sst.pulled > Len(sst.ins)) =>
        /\ res.op = "SSTable::new" /\ res.r = "OutOfOrderKey"
        /\ status = "run"
        /\ ~SSTableInfo_from_slice(get_last_record(rf, file).val).ok

\* Whether a record of the file, from offset off on, decodes as a summary.
RECURSIVE HasSummary(_, _)
HasSummary(f, off) ==
    LET rd == read_at(f, off) IN
    /\ rd.ok
    /\ \/ SSTableInfo_from_slice(rd.val).ok
       \/ HasSummary(f, off + U32_SIZE + Len(rd.val))

\* The build of the file at the path ended before its summary was appended:
\* by a panic on an out-of-order key, an I/O error, or the end of the process.
AbortedBuild ==
    exists /\ sst.built = NoInfo /\ sst.st \in {"dropped", "opening", "opened"}

\* C16: after a build that ended before its summary was appended, no record
\* of the file is a summary, and SSTable::open on the path never returns a
\* table: the record blob or group-index block that last_record leads to is
\* not taken for the summary.
C16_AbortedNotOpenable ==
    AbortedBuild =>
        /\ ~HasSummary(file, Len(SSTABLE_HEADER) + U32_SIZE + U64_SIZE)
        /\ sst.st # "opened"
        /\ res.op = "SSTable::open" => res.r # "Ok"

\* C16 witness: a build stopped by an out-of-order key after one record, the
\* RecordFile dropped, and SSTable::open reaching that record's blob through
\* last_record.
C16_Witness ==
    /\ AbortedBuild /\ res.op = "SSTable::open" /\ sst.st = "opening"
    /\ sst.pulled > Len(sst.ins) /\ Len(sst.ins) >= 1
    /\ LET last == get_last_record(rf, file) IN
       /\ last.ok
       /\ Record_from_slice(last.val).ok
       /\ Record_from_slice(last.val).rec = sst.ins[Len(sst.ins)]

\* C17: SSTable::new called with group_count = 0 or with count = Some(0)
\* returns the InvalidArg error to its caller and does not panic.
C17_InvalidArgsReported ==
    (res.op = "SSTable::new" /\ Len(res.val) = 2 /\ (res.val[1] = 0 \/ res.val[2] = 0)) =>
        /\ res.r = "InvalidArg"
        /\ status = "run"

\* C18: SSTable::new with valid arguments on a path that exists returns
\* AlreadyExists, leaves every byte of the file as it was, opens no
\* RecordFile and pulls no record from the stream.
C18_ExistingPath ==
    [][\A g \in 1..MaxGroup, c \in {NoCount} \cup 1..MaxLimit :
          (exists /\ BuildStart(g, c)) =>
              /\ res'.r = "AlreadyExists"
              /\ file' = file
              /\ rf' = rf
              /\ sst' = sst
              /\ status' = "run"]_vars

\* C18 witness: a table of two records was built and dropped, and a second
\* SSTable::new on its path was refused.
C18_Witness ==
    /\ res.op = "SSTable::new" /\ res.r = "AlreadyExists"
    /\ exists /\ sst.st = "dropped" /\ sst.closed /\ Len(sst.ins) = 2
    /\ get_last_record([NoRF EXCEPT !.last_record =
                                Slice(file, Len(SSTABLE_HEADER) + U32_SIZE, U64_SIZE)], file).val
           = SSTableInfo_to_vec(sst.built)

\* ceil(n / g)
CeilDiv(n, g) == (n + g - 1) \div g

\* C19: after a successful SSTable::new that inserted n records with
\* group_count g (and in that table reopened), indices has ceil(n / g)
\* entries and indices[i] is the offset append returned for the (i*g)-th
\* inserted record, the first record of group i, which read_at finds there.
C19_TopLevelIndex ==
    (sst.st \in {"built", "opened"}) =>
        LET n == Len(sst.ins)
            g == sst.info.group_count
            indices == sst.info.indices
        IN
        /\ sst.info.record_count = n
        /\ Len(indices) = CeilDiv(n, g)
        /\ \A i \in 0..(Len(indices) - 1) :
               /\ indices[i + 1] = sst.locs[i * g + 1]
               /\ Record_from_slice(read_at(file, indices[i + 1]).val)
                      = [ok |-> TRUE, rec |-> sst.ins[i * g + 1]]

\* C19 witness: three records in groups of two: two entries, the second the
\* offset of the third record.
C19_Witness ==
    /\ sst.st = "built" /\ Len(sst.ins) = 3 /\ sst.info.group_count = 2
    /\ Len(sst.info.indices) = 2
    /\ sst.info.indices[2] = sst.locs[3]
    /\ sst.info.indices[1] < sst.locs[2] /\ sst.locs[2] < sst.locs[3]

\* C20: after a successful SSTable::new there is one group-index block per
\* group, the last, partial group included; the block on disk has
\* group_count slots, slot j holds the offset of the j-th record of the group
\* for each record stored in it, and every slot after those is zero.
C20_GroupIndexBlocks ==
    (sst.st \in {"built", "opened"}) =>
        LET n == Len(sst.ins)
            g == sst.info.group_count
        IN
        /\ Len(sst.blocks) = CeilDiv(n, g)
        /\ \A k \in 1..Len(sst.blocks) :
               LET blk == read_at(file, sst.blocks[k])
                   v == deserialize_u64_exact(blk.val)
               IN
               /\ blk.ok
               /\ Len(blk.val) = g * U64_SIZE
               /\ \A j \in 1..g :
                      v[j] = IF (k - 1) * g + j <= n
                             THEN sst.locs[(k - 1) * g + j] ELSE 0
               /\ \A j \in 1..g : (k - 1) * g + j <= n => v[j] # 0

\* C20 witness: three records in groups of two; the block of the second
\* group holds the offset of the third record and then zero.
C20_Witness ==
    /\ sst.st = "built" /\ Len(sst.ins) = 3 /\ sst.info.group_count = 2
    /\ Len(sst.blocks) = 2
    /\ deserialize_u64_exact(read_at(file, sst.blocks[2]).val) = <<sst.locs[3], 0>>
    /\ deserialize_u64_exact(read_at(file, sst.blocks[1]).val)
           = <<sst.locs[1], sst.locs[2]>>

\* C21: in a successfully built table (and in that table reopened), for every
\* i the offset get computes from indices[i] is where the builder appended
\* the group-index block of group i: it lies after the file prefix, the
\* record stored there has group_count slots, ends where the group's first
\* record begins, starts with that record's offset, and is neither a record
\* blob nor the summary.
C21_GroupIndexLocation ==
    (sst.st \in {"built", "opened"}) =>
        LET info == sst.info
            g == info.group_count
        IN
        \A i \in 1..Len(info.indices) :
            LET gio == group_indices_offset(info, info.indices[i])
                blk == read_at(file, gio)
            IN
            /\ gio = sst.blocks[i]
            /\ gio >= Len(SSTABLE_HEADER) + U32_SIZE + U64_SIZE
            /\ blk.ok
            /\ Len(blk.val) = g * U64_SIZE
            /\ gio + U32_SIZE + Len(blk.val) = info.indices[i]
            /\ deserialize_u64_exact(blk.val)[1] = info.indices[i]
            /\ \A k \in 1..Len(sst.locs) : gio # sst.locs[k]
            /\ gio # LEVal(rf.last_record)
            /\ ~Record_from_slice(blk.val).ok
            /\ ~SSTableInfo_from_slice(blk.val).ok

\* C21 witness: three records in groups of two, the table reopened; the
\* offset computed from indices[2] is the second block, which lies between
\* the second and the third record.
C21_Witness ==
    /\ sst.st = "opened" /\ Len(sst.ins) = 3 /\ sst.info.group_count = 2
    /\ Len(sst.info.indices) = 2
    /\ group_indices_offset(sst.info, sst.info.indices[2]) = sst.blocks[2]
    /\ sst.locs[2] < sst.blocks[2] /\ sst.blocks[2] < sst.locs[3]

\* The range check of get passes the key.
InRange(info, key) ==
    ~(cmp(key, info.smallest_key) = "Less" \/ cmp(info.largest_key, key) = "Less")

\* C22: in a table with at least one record, for every probe key that passes
\* the range check the top-level binary search does not panic and does not
\* return insertion point 0; the position chosen (i on a hit, i - 1 on an
\* insertion point) is a position of indices, the first key of its group is
\* <= the probe, and the first key of the next group, if any, is > the probe.
C22_TopLevelSelection ==
    (sst.st \in {"built", "opened"} /\ sst.ins # <<>>) =>
        \A key \in ProbeKeys :
            InRange(sst.info, key) =>
                LET t == binary_search_by(file, sst.info.indices, key)
                    g == sst.info.group_count
                    c == IF t.r = "Ok" THEN t.i ELSE t.i - 1
                IN
                /\ t.r \in {"Ok", "Err"}
                /\ t.r = "Err" => t.i # 0
                /\ c \in 0..(Len(sst.info.indices) - 1)
                /\ cmp(sst.ins[c * g + 1].key, key) \in {"Less", "Equal"}
                /\ c + 1 < Len(sst.info.indices) =>
                       cmp(sst.ins[(c + 1) * g + 1].key, key) = "Greater"
                /\ t.r = "Ok" <=> sst.ins[c * g + 1].key = key

\* C22 witness: three records in groups of one, probed with a key that lies
\* between the first and the second: insertion point 1, group 0 chosen.
C22_Witness ==
    /\ sst.st \in {"built", "opened"} /\ Len(sst.ins) = 3
    /\ sst.info.group_count = 1
    /\ got.key = <<1, 0>> /\ got.r = "None" /\ InRange(sst.info, got.key)
    /\ binary_search_by(file, sst.info.indices, got.key).r = "Err"
    /\ binary_search_by(file, sst.info.indices, got.key).i = 1

\* Where the records of the file at the path begin: after the header the
\* file was created with, the count and last_record.
DataStart ==
    (IF gh.opens = 0 THEN Len(SSTABLE_HEADER) ELSE Len(gh.hdr)) + U32_SIZE + U64_SIZE

\* Byte p (counted from 1) of the file lies in the payload of the group-index
\* block the builder is filling.
InCurrentBlock(p) ==
    /\ sst.st = "building" /\ sst.blocks # <<>>
    /\ LET b == sst.blocks[Len(sst.blocks)] IN
       p > b + U32_SIZE /\ p <= b + U32_SIZE + sst.info.group_count * U64_SIZE

\* C23: in every step of the program (append, read_at, get_last_record, the
\* iterators, whole or dropped partly consumed with the fd cursor moved, the
\* builder's appends and patches, open and drop) the file does not get
\* shorter, every byte of the records already in it stays as it was except
\* the slots of the group-index block being filled, whose length prefix
\* stays too, and an append returns the end of the file as it was.
C23_NoOverwrite ==
    [][/\ Len(file') >= Len(file)
       /\ \A p \in (DataStart + 1)..Len(file) :
              file'[p] = file[p] \/ InCurrentBlock(p)
       /\ res'.op = "append" => res'.val = <<Len(file)>>
       /\ res'.op = "SSTable::new loop" => res'.val[1] >= Len(file)]_vars

\* C23 witness: an append made after a MutRecordFileIterator was dropped
\* partly consumed, the fd cursor standing before the end of the file; the
\* append went to the end and the earlier records read as before.
C23_Witness ==
    /\ res.op = "append" /\ rf.open /\ Len(gh.hist) = 3
    /\ gh.seek < res.val[1]
    /\ gh.seek > Len(gh.hdr) + U32_SIZE + U64_SIZE
    /\ \A i \in 1..Len(gh.offs) :
           read_at(file, gh.offs[i]) = [ok |-> TRUE, val |-> gh.hist[i]]

====
